---- MODULE Spec2Model ----
(***************************************************************************)
(* Exercise Form Analysis Engine: PoseEstimationModel of                   *)
(* src/ml/pose_estimation/pose_model.py.                                   *)
(*                                                                         *)
(* Angles are held in half-degree units (Deg(d) is d degrees), so that the *)
(* bilateral mean (left + right) / 2 of two sides measured in whole        *)
(* degrees is an exact integer.  A confidence score / total_checks is held *)
(* in hundredths (exact for the one- and two-indicator patterns of the     *)
(* catalog).  A Python dict is a sequence of entries, in insertion order.  *)
(* A feedback string is the record [kind, subject] that determines it.     *)
(***************************************************************************)
EXTENDS Integers, Sequences, FiniteSets, TLC

VARIABLES
    exercise_database,  \* self.exercise_database
    exercise_patterns,  \* self.exercise_patterns
    op,                 \* the method that returned last
    landmarks,          \* its landmarks argument
    exercise,           \* its exercise argument
    angles,             \* the angles dict it read or computed
    exercise_scores,    \* detect_exercise_advanced: exercise_scores, with the counters
    detection,          \* detect_exercise_advanced: the returned dict
    feedback,           \* check_form_generic: the returned list
    result,             \* analyze_pose_enhanced: the returned dict
    instructions,       \* get_exercise_instructions: the returned dict
    all_exercises,      \* get_all_exercises: the returned list
    points,             \* calculate_angle: its arguments a, b, c
    measured,            \* calculate_angle: the returned angle
    calls,              \* the analyze_pose_enhanced calls of the API clients
    request,            \* api_server: the request a pose endpoint handles
    response,           \* api_server: the status code it answered with
    stream,             \* process_video_stream: the capture and the loop
    conversation_history, \* FitnessChatbot: self.conversation_history
    sessions            \* FitnessChatbot: the process_message calls in progress

vars == << exercise_database, exercise_patterns, op, landmarks, exercise,
           angles, exercise_scores, detection, feedback, result, instructions,
           all_exercises, points, measured, calls, request, response,
           stream, conversation_history, sessions >>

\* the state outside the calls of the pose engine
Periphery == << request, response, stream, conversation_history, sessions >>

(***************************************************************************)
(* Bounds of the model.                                                    *)
(***************************************************************************)
\* at most this many canonical angles are present in an AngleSet given to
\* the classifier or the form checker
MaxPresent == 4
\* calculate_angle is called on points with coordinates 0..MaxCoord
MaxCoord == 2
\* processing_time is one of 0..MaxProcessingTime clock ticks
MaxProcessingTime == 1
\* a video stream delivers at most this many frames
MaxFrames == 3
\* at most this many process_message calls are made
MaxCalls == 14

Deg(d) == d + d

(***************************************************************************)
(* The catalog built by __init__.                                          *)
(***************************************************************************)
T(lo, hi, opt) == [min |-> lo, max |-> hi, optimal |-> opt]

InitialExerciseDatabase ==
    << [exercise |-> "squat",
        key_angles |-> <<"knee_angle", "hip_angle", "back_angle">>,
        thresholds |-> [knee_angle |-> T(70, 110, 90),
                        hip_angle |-> T(45, 90, 70),
                        back_angle |-> T(160, 180, 170)],
        alignment_checks |-> <<"knee_alignment", "back_straight">>,
        movement_pattern |-> "vertical",
        primary_muscles |-> <<"quadriceps", "glutes", "hamstrings">>],
       [exercise |-> "pushup",
        key_angles |-> <<"elbow_angle", "shoulder_angle", "back_angle">>,
        thresholds |-> [elbow_angle |-> T(80, 100, 90),
                        shoulder_angle |-> T(160, 180, 170),
                        back_angle |-> T(160, 180, 175)],
        alignment_checks |-> <<"body_straight", "elbow_position">>,
        movement_pattern |-> "horizontal",
        primary_muscles |-> <<"chest", "triceps", "shoulders">>],
       [exercise |-> "lunge",
        key_angles |-> <<"front_knee_angle", "back_knee_angle", "hip_angle">>,
        thresholds |-> [front_knee_angle |-> T(80, 110, 90),
                        back_knee_angle |-> T(80, 110, 90),
                        hip_angle |-> T(45, 90, 70)],
        alignment_checks |-> <<"knee_alignment", "hip_level">>,
        movement_pattern |-> "forward",
        primary_muscles |-> <<"quadriceps", "glutes", "hamstrings">>],
       [exercise |-> "bicep_curl",
        key_angles |-> <<"elbow_angle", "shoulder_angle", "wrist_angle">>,
        thresholds |-> [elbow_angle |-> T(30, 90, 60),
                        shoulder_angle |-> T(160, 180, 170),
                        wrist_angle |-> T(160, 180, 170)],
        alignment_checks |-> <<"elbow_fixed", "wrist_straight">>,
        movement_pattern |-> "isolated",
        primary_muscles |-> <<"biceps", "forearms">>],
       [exercise |-> "plank",
        key_angles |-> <<"shoulder_angle", "hip_angle", "ankle_angle">>,
        thresholds |-> [shoulder_angle |-> T(160, 180, 170),
                        hip_angle |-> T(160, 180, 170),
                        ankle_angle |-> T(160, 180, 170)],
        alignment_checks |-> <<"body_straight", "core_engaged">>,
        movement_pattern |-> "static",
        primary_muscles |-> <<"core", "shoulders", "glutes">>],
       [exercise |-> "deadlift",
        key_angles |-> <<"hip_angle", "knee_angle", "back_angle">>,
        thresholds |-> [hip_angle |-> T(30, 60, 45),
                        knee_angle |-> T(100, 140, 120),
                        back_angle |-> T(160, 180, 170)],
        alignment_checks |-> <<"back_straight", "bar_path">>,
        movement_pattern |-> "hinge",
        primary_muscles |-> <<"hamstrings", "glutes", "lower_back">>],
       [exercise |-> "overhead_press",
        key_angles |-> <<"shoulder_angle", "elbow_angle", "wrist_angle">>,
        thresholds |-> [shoulder_angle |-> T(160, 180, 170),
                        elbow_angle |-> T(80, 100, 90),
                        wrist_angle |-> T(160, 180, 170)],
        alignment_checks |-> <<"shoulder_alignment", "wrist_straight">>,
        movement_pattern |-> "vertical",
        primary_muscles |-> <<"shoulders", "triceps">>],
       [exercise |-> "row",
        key_angles |-> <<"shoulder_angle", "elbow_angle", "back_angle">>,
        thresholds |-> [shoulder_angle |-> T(45, 90, 70),
                        elbow_angle |-> T(80, 120, 100),
                        back_angle |-> T(160, 180, 170)],
        alignment_checks |-> <<"back_straight", "shoulder_blades">>,
        movement_pattern |-> "horizontal",
        primary_muscles |-> <<"back", "biceps", "rear_deltoids">>],
       [exercise |-> "burpee",
        key_angles |-> <<"knee_angle", "hip_angle", "shoulder_angle">>,
        thresholds |-> [knee_angle |-> T(70, 110, 90),
                        hip_angle |-> T(45, 90, 70),
                        shoulder_angle |-> T(160, 180, 170)],
        alignment_checks |-> <<"full_range", "explosive_movement">>,
        movement_pattern |-> "compound",
        primary_muscles |-> <<"full_body">>],
       [exercise |-> "mountain_climber",
        key_angles |-> <<"shoulder_angle", "hip_angle", "knee_angle">>,
        thresholds |-> [shoulder_angle |-> T(160, 180, 170),
                        hip_angle |-> T(160, 180, 170),
                        knee_angle |-> T(80, 120, 100)],
        alignment_checks |-> <<"core_stable", "alternating_legs">>,
        movement_pattern |-> "dynamic",
        primary_muscles |-> <<"core", "shoulders", "hip_flexors">>] >>

P(name, primary, secondary) ==
    [exercise |-> name, primary_indicators |-> primary,
     secondary_indicators |-> secondary]

InitialExercisePatterns ==
    << P("squat", <<"knee_bend", "hip_drop">>,
                  <<"vertical_movement", "feet_shoulder_width">>),
       P("pushup", <<"horizontal_position", "arm_bend">>,
                   <<"body_straight", "elbow_tuck">>),
       P("lunge", <<"forward_step", "knee_bend">>,
                  <<"hip_drop", "back_knee_low">>),
       P("bicep_curl", <<"arm_curl", "elbow_fixed">>,
                       <<"wrist_straight", "shoulder_stable">>),
       P("plank", <<"static_position", "body_straight">>,
                  <<"core_engaged", "shoulder_stable">>),
       P("deadlift", <<"hip_hinge", "back_straight">>,
                     <<"knee_bend", "bar_path">>),
       P("overhead_press", <<"arm_extension", "shoulder_press">>,
                           <<"wrist_straight", "core_stable">>),
       P("row", <<"arm_pull", "shoulder_blade_squeeze">>,
                <<"back_straight", "elbow_bend">>),
       P("burpee", <<"squat_drop", "pushup", "jump">>,
                   <<"full_range", "explosive">>),
       P("mountain_climber", <<"alternating_legs", "core_stable">>,
                             <<"shoulder_stable", "hip_movement">>) >>

\* dict helpers: the keys of a dict, membership, lookup
Range(s) == { s[i] : i \in DOMAIN s }
Keys(d) == { d[i].exercise : i \in DOMAIN d }
Entry(d, k) == d[CHOOSE i \in DOMAIN d : d[i].exercise = k]

\* an AngleSet without entries
EmptyAngles == [n \in {} |-> 0]

(***************************************************************************)
(* check_form_generic                                                      *)
(***************************************************************************)
Item(k, s) == [kind |-> k, subject |-> s]

Abs(x) == IF x < 0 THEN -x ELSE x

\* KeyAngleCheck with the bounds themselves flagged (<= min, >= max)
KeyAngleCheck_BoundsFlagged(angle_name, angle_value, thresholds) ==
    IF angle_value <= Deg(thresholds.min)
    THEN << Item("too_small", angle_name) >>
    ELSE IF angle_value >= Deg(thresholds.max)
    THEN << Item("too_large", angle_name) >>
    ELSE IF Abs(angle_value - Deg(thresholds.optimal)) > Deg(10)
    THEN << Item("adjust", angle_name) >>
    ELSE << >>

\* the feedback of one present key angle (the if / elif / else of the loop)
KeyAngleCheck(angle_name, angle_value, thresholds) ==
    IF angle_value < Deg(thresholds.min)
    THEN << Item("too_small", angle_name) >>
    ELSE IF angle_value > Deg(thresholds.max)
    THEN << Item("too_large", angle_name) >>
    ELSE IF Abs(angle_value - Deg(thresholds.optimal)) > Deg(10)
    THEN << Item("adjust", angle_name) >>
    ELSE << >>

\* the key-angle loop, from the i-th key angle on
RECURSIVE KeyAngleFeedback(_, _, _)
KeyAngleFeedback(exercise_config, a, i) ==
    IF i > Len(exercise_config.key_angles) THEN << >>
    ELSE LET angle_name == exercise_config.key_angles[i]
         IN  (IF angle_name \in DOMAIN a
              THEN KeyAngleCheck(angle_name, a[angle_name],
                                 exercise_config.thresholds[angle_name])
              ELSE << >>)
             \o KeyAngleFeedback(exercise_config, a, i + 1)

\* AlignmentCheck with the knee reminder emitted only when knee_angle exists
AlignmentCheck_KneeNeedsAngle(alignment_check, a) ==
    IF alignment_check = "back_straight" /\ "back_angle" \in DOMAIN a
    THEN IF a["back_angle"] < Deg(160)
         THEN << Item("alignment", "Keep your back straight") >>
         ELSE << >>
    ELSE IF alignment_check = "body_straight"
    THEN IF "shoulder_angle" \in DOMAIN a /\ a["shoulder_angle"] < Deg(160)
         THEN << Item("alignment", "Keep your body in a straight line") >>
         ELSE << >>
    ELSE IF alignment_check = "knee_alignment" /\ "knee_angle" \in DOMAIN a
    THEN << Item("alignment", "Ensure knees are aligned with your feet") >>
    ELSE IF alignment_check = "elbow_fixed"
    THEN << Item("alignment", "Keep your elbows in a fixed position") >>
    ELSE << >>

\* the feedback of one alignment check (the if / elif chain of the loop)
AlignmentCheck(alignment_check, a) ==
    IF alignment_check = "back_straight" /\ "back_angle" \in DOMAIN a
    THEN IF a["back_angle"] < Deg(160)
         THEN << Item("alignment", "Keep your back straight") >>
         ELSE << >>
    ELSE IF alignment_check = "body_straight"
    THEN IF "shoulder_angle" \in DOMAIN a /\ a["shoulder_angle"] < Deg(160)
         THEN << Item("alignment", "Keep your body in a straight line") >>
         ELSE << >>
    ELSE IF alignment_check = "knee_alignment"
    THEN << Item("alignment", "Ensure knees are aligned with your feet") >>
    ELSE IF alignment_check = "elbow_fixed"
    THEN << Item("alignment", "Keep your elbows in a fixed position") >>
    ELSE << >>

\* the alignment-check identifiers the if / elif chain has a branch for
AlignmentRules == {"back_straight", "body_straight", "knee_alignment", "elbow_fixed"}

\* the alignment loop, from the i-th alignment check on
RECURSIVE AlignmentFeedback(_, _, _)
AlignmentFeedback(exercise_config, a, i) ==
    IF i > Len(exercise_config.alignment_checks) THEN << >>
    ELSE AlignmentCheck(exercise_config.alignment_checks[i], a)
         \o AlignmentFeedback(exercise_config, a, i + 1)

\* check_form_generic with the alignment pass run before the key-angle pass
check_form_generic_AlignmentFirst(ex, a) ==
    IF ex \notin Keys(exercise_database)
    THEN << Item("not_in_database", "Exercise not in database") >>
    ELSE LET exercise_config == Entry(exercise_database, ex)
         IN  AlignmentFeedback(exercise_config, a, 1)
             \o KeyAngleFeedback(exercise_config, a, 1)

check_form_generic(ex, a) ==
    IF ex \notin Keys(exercise_database)
    THEN << Item("not_in_database", "Exercise not in database") >>
    ELSE LET exercise_config == Entry(exercise_database, ex)
         IN  KeyAngleFeedback(exercise_config, a, 1)
             \o AlignmentFeedback(exercise_config, a, 1)

(***************************************************************************)
(* calculate_angle: landmarks are points of a grid on which every          *)
(* direction is a multiple of 45 degrees, so arctan2 is exact.             *)
(***************************************************************************)
\* np.arctan2(dy, dx) in degrees, for dx = 0, dy = 0 or |dx| = |dy|
ArcTan2Deg(dy, dx) ==
    IF dy = 0 THEN (IF dx >= 0 THEN 0 ELSE 180)
    ELSE IF dx = 0 THEN (IF dy > 0 THEN 90 ELSE -90)
    ELSE IF dy > 0 THEN (IF dx > 0 THEN 45 ELSE 135)
    ELSE (IF dx > 0 THEN -45 ELSE -135)

\* calculate_angle without the fold of a difference above 180 degrees
calculate_angle_NoFold(a, b, c) ==
    Deg(Abs(ArcTan2Deg(c[2] - b[2], c[1] - b[1])
            - ArcTan2Deg(a[2] - b[2], a[1] - b[1])))

\* calculate_angle measuring at a, between the arms a-b and a-c
calculate_angle_VertexAtA(a, b, c) ==
    LET angle_at_a == Abs(ArcTan2Deg(c[2] - a[2], c[1] - a[1])
                          - ArcTan2Deg(b[2] - a[2], b[1] - a[1]))
    IN  Deg(IF angle_at_a > 180 THEN 360 - angle_at_a ELSE angle_at_a)

\* the angle at b between the arms b-a and b-c, in half-degrees
calculate_angle(a, b, c) ==
    LET degrees == ArcTan2Deg(c[2] - b[2], c[1] - b[1])
                   - ArcTan2Deg(a[2] - b[2], a[1] - b[1])
        angle == Abs(degrees)
    IN  Deg(IF angle > 180 THEN 360 - angle ELSE angle)

(***************************************************************************)
(* get_landmark_coordinates and calculate_all_angles                       *)
(***************************************************************************)
\* a landmarks argument: None, a landmark list without entries, or a pose
\* (landmark maps each landmark that exists to its point)
NoPoints == [n \in {} |-> << >>]
NoLandmarks == [is_none |-> TRUE, landmark |-> NoPoints]
EmptyLandmarks == [is_none |-> FALSE, landmark |-> NoPoints]

\* the truth value of a landmarks argument
Truthy(lm) == ~lm.is_none

LandmarkNames ==
    {"left_shoulder", "right_shoulder", "left_elbow", "right_elbow",
     "left_wrist", "right_wrist", "left_hip", "right_hip",
     "left_knee", "right_knee", "left_ankle", "right_ankle"}

\* get_landmark_coordinates finding no landmark of the right side
get_landmark_coordinates_RightSideHidden(lm, landmark_idx) ==
    IF Truthy(lm) /\ lm.landmark # NoPoints
       /\ landmark_idx \in {"left_shoulder", "left_elbow", "left_wrist",
                            "left_hip", "left_knee", "left_ankle"}
    THEN lm.landmark[landmark_idx] ELSE << >>

\* (landmark.x, landmark.y), or None (the empty tuple here)
get_landmark_coordinates(lm, landmark_idx) ==
    IF Truthy(lm) /\ lm.landmark # NoPoints THEN lm.landmark[landmark_idx] ELSE << >>

\* all([...]) over the coordinates of the named landmarks
AllPresent(landmarks_dict, names) ==
    \A n \in names : landmarks_dict[n] # << >>

\* dict update: the entries of d, then those of e
Update(d, e) ==
    [n \in DOMAIN d \cup DOMAIN e |-> IF n \in DOMAIN e THEN e[n] ELSE d[n]]

\* the three leg angles of one side, when its shoulder, hip and knee exist
LegAngles(ld, side) ==
    LET sh == side \o "_shoulder"
        hp == side \o "_hip"
        kn == side \o "_knee"
        an == side \o "_ankle"
    IN  IF AllPresent(ld, {sh, hp, kn})
        THEN (side \o "_knee_angle" :> calculate_angle(ld[hp], ld[kn], ld[an]))
             @@ (side \o "_hip_angle" :> calculate_angle(ld[sh], ld[hp], ld[kn]))
             @@ (side \o "_back_angle" :> calculate_angle(ld[sh], ld[hp], ld[an]))
        ELSE EmptyAngles

\* the two arm angles of one side, when its shoulder, elbow and wrist exist
ArmAngles(ld, side) ==
    LET sh == side \o "_shoulder"
        el == side \o "_elbow"
        wr == side \o "_wrist"
        hp == side \o "_hip"
    IN  IF AllPresent(ld, {sh, el, wr})
        THEN (side \o "_elbow_angle" :> calculate_angle(ld[sh], ld[el], ld[wr]))
             @@ (side \o "_shoulder_angle" :> calculate_angle(ld[el], ld[sh], ld[hp]))
        ELSE EmptyAngles

JointTypes == {"knee", "hip", "back", "elbow", "shoulder"}

\* AverageAngles taking the left value for the canonical angle
AverageAngles_LeftValue(d) ==
    LET both == { j \in JointTypes :
                    /\ ("left_" \o j \o "_angle") \in DOMAIN d
                    /\ ("right_" \o j \o "_angle") \in DOMAIN d }
    IN  Update(d, [n \in { j \o "_angle" : j \in both } |->
                     LET j == CHOOSE k \in both : k \o "_angle" = n
                     IN  d["left_" \o j \o "_angle"]])

\* "Average angles for bilateral exercises": the canonical entries added to d
AverageAngles(d) ==
    LET both == { j \in JointTypes :
                    /\ ("left_" \o j \o "_angle") \in DOMAIN d
                    /\ ("right_" \o j \o "_angle") \in DOMAIN d }
    IN  Update(d, [n \in { j \o "_angle" : j \in both } |->
                     LET j == CHOOSE k \in both : k \o "_angle" = n
                     IN  (d["left_" \o j \o "_angle"]
                          + d["right_" \o j \o "_angle"]) \div 2])

calculate_all_angles(lm) ==
    LET landmarks_dict == [n \in LandmarkNames |-> get_landmark_coordinates(lm, n)]
    IN  AverageAngles(
            Update(Update(LegAngles(landmarks_dict, "left"),
                          LegAngles(landmarks_dict, "right")),
                   Update(ArmAngles(landmarks_dict, "left"),
                          ArmAngles(landmarks_dict, "right"))))

(***************************************************************************)
(* detect_exercise_advanced                                                *)
(***************************************************************************)
\* "Only return if confidence is above threshold", in hundredths
ConfidenceFloor == 60

Unknown == [exercise |-> "unknown", confidence |-> 0]

\* the primary indicators the scoring loop tests, in the order it tests them
IndicatorChecks ==
    << [indicator |-> "knee_bend", angle |-> "knee_angle", below |-> TRUE, cutoff |-> 120],
       [indicator |-> "hip_drop", angle |-> "hip_angle", below |-> TRUE, cutoff |-> 90],
       [indicator |-> "horizontal_position", angle |-> "shoulder_angle", below |-> FALSE, cutoff |-> 160],
       [indicator |-> "arm_bend", angle |-> "elbow_angle", below |-> TRUE, cutoff |-> 120],
       [indicator |-> "static_position", angle |-> "back_angle", below |-> FALSE, cutoff |-> 160] >>

\* IndicatorPasses with an absent angle taken as a pass
IndicatorPasses_AbsentPasses(c, a) ==
    c.angle \in DOMAIN a =>
        IF c.below THEN a[c.angle] < Deg(c.cutoff) ELSE a[c.angle] > Deg(c.cutoff)

\* the inner condition of one indicator test: score += 1.0
IndicatorPasses(c, a) ==
    /\ c.angle \in DOMAIN a
    /\ IF c.below THEN a[c.angle] < Deg(c.cutoff) ELSE a[c.angle] > Deg(c.cutoff)

\* ChecksOf with the secondary indicators of the pattern tested as well
ChecksOf_SecondaryToo(pattern) ==
    { i \in DOMAIN IndicatorChecks :
        IndicatorChecks[i].indicator
            \in Range(pattern.primary_indicators) \cup Range(pattern.secondary_indicators) }

\* the indicator tests whose outer condition holds for a pattern
ChecksOf(pattern) ==
    { i \in DOMAIN IndicatorChecks :
        IndicatorChecks[i].indicator \in Range(pattern.primary_indicators) }

\* one pass of the scoring loop: score and total_checks of one exercise
ScorePattern(pattern, a) ==
    LET score == Cardinality({ i \in ChecksOf(pattern) :
                                 IndicatorPasses(IndicatorChecks[i], a) })
        total_checks == Cardinality(ChecksOf(pattern))
    IN  [exercise |-> pattern.exercise,
         score |-> score,
         total_checks |-> total_checks,
         confidence |-> IF total_checks > 0
                        THEN (score * 100) \div total_checks ELSE 0]

\* exercise_scores after the loop: the exercises with total_checks > 0
ExerciseScores(a) ==
    LET Scored(r) == r.total_checks > 0
    IN  SelectSeq([i \in DOMAIN exercise_patterns |->
                      ScorePattern(exercise_patterns[i], a)], Scored)

\* the exercise keys in lexicographic order
LexOrder ==
    << "bicep_curl", "burpee", "deadlift", "lunge", "mountain_climber",
       "overhead_press", "plank", "pushup", "row", "squat" >>

LexRank(e) == CHOOSE i \in DOMAIN LexOrder : LexOrder[i] = e

\* BestExercise with ties going to the last maximal entry
BestExercise_LastMaximal(scores) ==
    scores[CHOOSE i \in DOMAIN scores :
              /\ \A j \in DOMAIN scores : scores[j].confidence <= scores[i].confidence
              /\ \A j \in (i + 1)..Len(scores) : scores[j].confidence < scores[i].confidence]

\* BestExercise with ties going to the lexicographically smallest key
BestExercise_Lexicographic(scores) ==
    scores[CHOOSE i \in DOMAIN scores :
              /\ \A j \in DOMAIN scores : scores[j].confidence <= scores[i].confidence
              /\ \A j \in DOMAIN scores :
                    scores[j].confidence = scores[i].confidence
                        => LexRank(scores[i].exercise) <= LexRank(scores[j].exercise)]

\* max(exercise_scores, key=exercise_scores.get): the first maximal entry
BestExercise(scores) ==
    scores[CHOOSE i \in DOMAIN scores :
              /\ \A j \in DOMAIN scores : scores[j].confidence <= scores[i].confidence
              /\ \A j \in 1..(i - 1) : scores[j].confidence < scores[i].confidence]

\* SelectExercise with half of the checks passed being enough
SelectExercise_HalfIsEnough(scores) ==
    IF scores # << >> /\ BestExercise(scores).confidence + BestExercise(scores).confidence >= 100
    THEN [exercise |-> BestExercise(scores).exercise,
          confidence |-> BestExercise(scores).confidence]
    ELSE Unknown

\* "Find the exercise with highest confidence"
SelectExercise(scores) ==
    IF scores # << >> /\ BestExercise(scores).confidence > ConfidenceFloor
    THEN [exercise |-> BestExercise(scores).exercise,
          confidence |-> BestExercise(scores).confidence]
    ELSE Unknown

detect_exercise_advanced(lm) ==
    IF ~Truthy(lm) THEN Unknown
    ELSE SelectExercise(ExerciseScores(calculate_all_angles(lm)))

(***************************************************************************)
(* analyze_pose_enhanced, get_exercise_instructions, get_all_exercises     *)
(***************************************************************************)
\* list(self.exercise_database.keys())
ListKeys(d) == [i \in DOMAIN d |-> d[i].exercise]

NoPoseFeedback ==
    << Item("no_pose", "No pose detected - please ensure you are visible in the camera") >>

NotRecognizedFeedback ==
    << Item("not_recognized", "Exercise not recognized. Try a different position or exercise.") >>

\* Status with a single feedback item still counted as correct
Status_OneItemTolerated(fb) ==
    IF Len(fb) <= 1 THEN "correct" ELSE "incorrect"

\* "Determine status"
Status(fb) ==
    IF Len(fb) = 0 THEN "correct" ELSE "incorrect"

\* the dict returned when the detector found no landmarks
NoPoseResult(processing_time) ==
    [exercise |-> "unknown",
     status |-> "no_pose_detected",
     feedback |-> NoPoseFeedback,
     processing_time |-> processing_time,
     confidence |-> 0,
     angles |-> EmptyAngles,
     supported_exercises |-> ListKeys(exercise_database)]

\* the dict returned for detected landmarks
PoseResult(pose_landmarks, processing_time) ==
    LET detection_result == detect_exercise_advanced(pose_landmarks)
        a == calculate_all_angles(pose_landmarks)
        fb == IF detection_result.exercise # "unknown"
              THEN check_form_generic(detection_result.exercise, a)
              ELSE NotRecognizedFeedback
    IN  [exercise |-> detection_result.exercise,
         status |-> Status(fb),
         feedback |-> fb,
         processing_time |-> processing_time,
         confidence |-> detection_result.confidence,
         angles |-> a,
         supported_exercises |-> ListKeys(exercise_database)]

\* analyze_pose_enhanced reporting an unclassified pose as no pose
analyze_pose_enhanced_UnknownIsNoPose(pose_landmarks, processing_time) ==
    IF ~Truthy(pose_landmarks)
       \/ detect_exercise_advanced(pose_landmarks).exercise = "unknown"
    THEN NoPoseResult(processing_time)
    ELSE PoseResult(pose_landmarks, processing_time)

\* analyze_pose_enhanced on a frame in which the detector found pose_landmarks
\* (None when it found no pose), returning after processing_time ticks
analyze_pose_enhanced(pose_landmarks, processing_time) ==
    IF ~Truthy(pose_landmarks)
    THEN NoPoseResult(processing_time)
    ELSE PoseResult(pose_landmarks, processing_time)

NotFound == [error |-> "Exercise not found"]

\* get_exercise_instructions answering with the first profile of the catalog
get_exercise_instructions_FirstProfile(ex) ==
    IF ex \in Keys(exercise_database)
    THEN LET config == exercise_database[1]
         IN  [exercise |-> ex,
              key_angles |-> config.key_angles,
              thresholds |-> config.thresholds,
              alignment_checks |-> config.alignment_checks,
              movement_pattern |-> config.movement_pattern,
              primary_muscles |-> config.primary_muscles]
    ELSE NotFound

get_exercise_instructions(ex) ==
    IF ex \in Keys(exercise_database)
    THEN LET config == Entry(exercise_database, ex)
         IN  [exercise |-> ex,
              key_angles |-> config.key_angles,
              thresholds |-> config.thresholds,
              alignment_checks |-> config.alignment_checks,
              movement_pattern |-> config.movement_pattern,
              primary_muscles |-> config.primary_muscles]
    ELSE NotFound

get_all_exercises == ListKeys(exercise_database)

(***************************************************************************)
(* Inputs                                                                  *)
(***************************************************************************)
\* the canonical angle names calculate_all_angles produces
CanonicalNames ==
    {"knee_angle", "hip_angle", "back_angle", "elbow_angle", "shoulder_angle"}

SideNames ==
    { s \o "_" \o n : s \in {"left", "right"}, n \in CanonicalNames }

\* angle values (degrees) around the catalog's thresholds and the cutoffs
AngleDegrees(n) ==
    CASE n = "knee_angle" -> {50, 70, 90, 100, 110, 120, 180}
      [] n = "hip_angle" -> {50, 70, 80, 90, 100, 180}
      [] n = "back_angle" -> {140, 160, 170, 180}
      [] n = "elbow_angle" -> {60, 80, 90, 100, 120}
      [] n = "shoulder_angle" -> {70, 150, 160, 170}

\* AngleSets of at most MaxPresent entries; -1 chooses an absent angle
AngleSets ==
    { [n \in { m \in CanonicalNames : c[m] >= 0 } |-> c[n]] :
      c \in { k \in [knee_angle : { Deg(d) : d \in AngleDegrees("knee_angle") } \cup {-1},
                      hip_angle : { Deg(d) : d \in AngleDegrees("hip_angle") } \cup {-1},
                      back_angle : { Deg(d) : d \in AngleDegrees("back_angle") } \cup {-1},
                      elbow_angle : { Deg(d) : d \in AngleDegrees("elbow_angle") } \cup {-1},
                      shoulder_angle : { Deg(d) : d \in AngleDegrees("shoulder_angle") } \cup {-1}] :
               Cardinality({ m \in CanonicalNames : k[m] >= 0 }) <= MaxPresent } }

ExerciseArgs == Keys(InitialExerciseDatabase) \cup {"yoga"}

\* poses: the landmarks of one person on the grid
GridPoints == { <<0, 0>>, <<1, 0>>, <<2, 0>>, <<1, 1>> }

Poses ==
    { [is_none |-> FALSE, landmark |-> [n \in LandmarkNames |->
         CASE n \in {"left_shoulder", "right_shoulder"} -> <<0, 0>>
           [] n \in {"left_hip", "right_hip"} -> hip
           [] n = "left_knee" -> lk
           [] n = "right_knee" -> rk
           [] n = "left_ankle" -> la
           [] n = "right_ankle" -> ra
           [] n = "left_elbow" -> le
           [] n = "right_elbow" -> re
           [] n = "left_wrist" -> lw
           [] n = "right_wrist" -> rw]] :
      hip \in { <<1, 0>>, <<1, 1>> },
      lk \in GridPoints, rk \in GridPoints,
      la \in { <<2, 0>>, <<1, 1>> }, ra \in { <<2, 0>>, <<1, 1>> },
      le \in { <<1, 0>>, <<1, 1>> }, re \in { <<1, 0>>, <<1, 1>> },
      lw \in { <<2, 0>>, <<0, 0>> }, rw \in { <<2, 0>>, <<0, 0>> } }

\* the arms of a detected pose: elbow and wrist (the shoulder is at <<1, 0>>)
ArmPoses ==
    { << <<0, 0>>, <<0, 1>> >>, << <<1, 1>>, <<1, 2>> >>, << <<1, 1>>, <<0, 1>> >> }

\* a leg of a detected pose: knee and ankle (the hip is at <<2, 0>>)
LegPoses ==
    { << <<3, 0>>, <<4, 0>> >>, << <<3, 1>>, <<4, 0>> >>, << <<1, 1>>, <<2, 1>> >>,
      << <<2, 1>>, <<2, 2>> >> }

\* what the detector reports for a frame with a person in it
Snapshots ==
    { [is_none |-> FALSE, landmark |-> [n \in LandmarkNames |->
         CASE n \in {"left_shoulder", "right_shoulder"} -> <<1, 0>>
           [] n \in {"left_hip", "right_hip"} -> <<2, 0>>
           [] n \in {"left_elbow", "right_elbow"} -> arm[1]
           [] n \in {"left_wrist", "right_wrist"} -> arm[2]
           [] n = "left_knee" -> left[1]
           [] n = "left_ankle" -> left[2]
           [] n = "right_knee" -> right[1]
           [] n = "right_ankle" -> right[2]]] :
      arm \in ArmPoses, left \in LegPoses, right \in LegPoses }

\* what self.pose.process reports as pose_landmarks: None or a pose
DetectorOutputs == {NoLandmarks} \cup Snapshots

ProcessingTimes == 0..MaxProcessingTime

\* a direction whose arctan2 is a multiple of 45 degrees
Exact(p, q) ==
    \/ p[1] = q[1]
    \/ p[2] = q[2]
    \/ Abs(p[1] - q[1]) = Abs(p[2] - q[2])

\* arguments a, b, c of calculate_angle, coincident points included
PointTriples ==
    LET Coords == (0..MaxCoord) \X (0..MaxCoord)
    IN  { [a |-> t[1], b |-> t[2], c |-> t[3]] :
          t \in { u \in Coords \X Coords \X Coords :
                    Exact(u[1], u[2]) /\ Exact(u[3], u[2]) } }

LandmarkInputs == {NoLandmarks, EmptyLandmarks} \cup Poses

(***************************************************************************)
(* The state machine: a caller is idle or holds the result of one call.    *)
(***************************************************************************)
NoDetection == [exercise |-> "none", confidence |-> 0]

NoResult == [status |-> "none"]

NoInstructions == [error |-> "none"]

NoPointsGiven == [a |-> << >>, b |-> << >>, c |-> << >>]

NoRequest == [endpoint |-> "none", kind |-> "none"]

NoResponse == [code |-> 0, called |-> FALSE]

\* process_video_stream not called yet
NoStream == [pc |-> "idle", frames |-> << >>, frame |-> NoLandmarks,
             status |-> "none", capture |-> "closed", windows |-> "closed"]

\* the API clients whose chat requests are handled by threads of the server
Clients == {"client_a", "client_b"}

\* the locals detection_result, angles and feedback of analyze_pose_enhanced
\* before they are assigned
NoLocals == [detection_result |-> NoDetection, angles |-> EmptyAngles,
             feedback |-> << >>]

\* no analyze_pose_enhanced call made yet: per client the call it makes (its
\* place in the method, the landmarks the detector reported, the dict it got
\* back, whether another call took a step meanwhile), per call the locals
NoCall == [pc |-> "idle", pose_landmarks |-> NoLandmarks, result |-> NoResult,
           overlapped |-> FALSE]

NoCalls == [of |-> [c \in Clients |-> NoCall],
            locals |-> [c \in Clients |-> NoLocals]]

\* no process_message call made yet
NoSessions == [calls |-> 0,
               of |-> [c \in Clients |->
                          [pc |-> "idle", kept |-> << >>, current |-> TRUE]]]

\* the variables of the calls other than the one an action makes
Analysis == << result, instructions, all_exercises, points, measured >>

Catalog == << exercise_database, exercise_patterns >>

Init ==
    /\ exercise_database = InitialExerciseDatabase
    /\ exercise_patterns = InitialExercisePatterns
    /\ op = "idle"
    /\ landmarks = NoLandmarks
    /\ exercise = "none"
    /\ angles = EmptyAngles
    /\ exercise_scores = << >>
    /\ detection = NoDetection
    /\ feedback = << >>
    /\ result = NoResult
    /\ instructions = NoInstructions
    /\ all_exercises = << >>
    /\ points = NoPointsGiven
    /\ measured = -1
    /\ calls = NoCalls
    /\ request = NoRequest
    /\ response = NoResponse
    /\ stream = NoStream
    /\ conversation_history = << >>
    /\ sessions = NoSessions

\* calculate_all_angles(landmarks)
CalculateAllAngles ==
    /\ op = "idle"
    /\ \E lm \in LandmarkInputs :
        /\ op' = "calculate_all_angles"
        /\ landmarks' = lm
        /\ angles' = calculate_all_angles(lm)
        /\ UNCHANGED << Catalog, Analysis, calls, exercise, exercise_scores, detection, feedback >>
    /\ UNCHANGED Periphery

\* detect_exercise_advanced(landmarks)
DetectExerciseAdvanced ==
    /\ op = "idle"
    /\ \E lm \in LandmarkInputs :
        /\ op' = "detect_exercise_advanced"
        /\ landmarks' = lm
        /\ angles' = IF Truthy(lm) THEN calculate_all_angles(lm) ELSE EmptyAngles
        /\ exercise_scores' = IF Truthy(lm)
                              THEN ExerciseScores(calculate_all_angles(lm))
                              ELSE << >>
        /\ detection' = detect_exercise_advanced(lm)
        /\ UNCHANGED << Catalog, Analysis, calls, exercise, feedback >>
    /\ UNCHANGED Periphery

\* the scoring and selection of detect_exercise_advanced, given the AngleSet
ClassifyAngles ==
    /\ op = "idle"
    /\ \E a \in AngleSets :
        /\ op' = "classify"
        /\ angles' = a
        /\ exercise_scores' = ExerciseScores(a)
        /\ detection' = SelectExercise(ExerciseScores(a))
        /\ UNCHANGED << Catalog, Analysis, calls, landmarks, exercise, feedback >>
    /\ UNCHANGED Periphery

\* check_form_generic(exercise, angles)
CheckFormGeneric ==
    /\ op = "idle"
    /\ \E ex \in ExerciseArgs, a \in AngleSets :
        /\ op' = "check_form_generic"
        /\ exercise' = ex
        /\ angles' = a
        /\ feedback' = check_form_generic(ex, a)
        /\ UNCHANGED << Catalog, Analysis, calls, landmarks, exercise_scores, detection >>
    /\ UNCHANGED Periphery

\* calculate_angle(a, b, c)
CalculateAngle ==
    /\ op = "idle"
    /\ \E t \in PointTriples :
        /\ op' = "calculate_angle"
        /\ points' = t
        /\ measured' = calculate_angle(t.a, t.b, t.c)
        /\ UNCHANGED << Catalog, landmarks, exercise, angles, exercise_scores,
                        detection, feedback, result, instructions, all_exercises,
                        calls >>
    /\ UNCHANGED Periphery

\* analyze_pose_enhanced(frame), the detector reporting pose_landmarks
AnalyzePoseEnhanced ==
    /\ op = "idle"
    /\ \E pose_landmarks \in DetectorOutputs, processing_time \in ProcessingTimes :
        /\ op' = "analyze_pose_enhanced"
        /\ landmarks' = pose_landmarks
        /\ result' = analyze_pose_enhanced(pose_landmarks, processing_time)
        /\ UNCHANGED << Catalog, calls, exercise, angles, exercise_scores, detection,
                        feedback, instructions, all_exercises, points, measured >>
    /\ UNCHANGED Periphery

\* get_exercise_instructions dropping the profile it answered with
GetExerciseInstructions_PopsEntry ==
    /\ op = "idle"
    /\ \E ex \in ExerciseArgs :
        /\ op' = "get_exercise_instructions"
        /\ exercise' = ex
        /\ instructions' = get_exercise_instructions(ex)
        /\ exercise_database' =
              SelectSeq(exercise_database, LAMBDA e : e.exercise # ex)
        /\ UNCHANGED << exercise_patterns, calls, landmarks, angles, exercise_scores,
                        detection, feedback, result, all_exercises, points, measured >>
    /\ UNCHANGED Periphery

\* get_exercise_instructions(exercise)
GetExerciseInstructions ==
    /\ op = "idle"
    /\ \E ex \in ExerciseArgs :
        /\ op' = "get_exercise_instructions"
        /\ exercise' = ex
        /\ instructions' = get_exercise_instructions(ex)
        /\ UNCHANGED << Catalog, calls, landmarks, angles, exercise_scores, detection,
                        feedback, result, all_exercises, points, measured >>
    /\ UNCHANGED Periphery

\* get_all_exercises()
GetAllExercises ==
    /\ op = "idle"
    /\ op' = "get_all_exercises"
    /\ all_exercises' = get_all_exercises
    /\ UNCHANGED << Catalog, calls, landmarks, exercise, angles, exercise_scores,
                    detection, feedback, result, instructions, points, measured >>
    /\ UNCHANGED Periphery

(***************************************************************************)
(* api_server: /api/pose/analyze and /api/pose/analyze-enhanced            *)
(***************************************************************************)
PoseEndpoints == {"/api/pose/analyze", "/api/pose/analyze-enhanced"}

\* what a client may post: a body that is not JSON, the JSON null, the empty
\* object, an object without 'image', an image string without a comma, a
\* payload whose base64 padding is wrong, a payload that is no image, and a
\* data URI of an image
RequestKinds ==
    {"not_json", "null", "empty_object", "no_image", "no_comma",
     "base64_wrong_padding", "not_an_image", "image"}

\* request.get_json(): the parsed data, None, or an exception; a body that is
\* not JSON raises or gives None, depending on the Flask version and the
\* content type
GetJsonOutcomes(kind) ==
    CASE kind = "not_json" -> {"raises", "none"}
      [] kind = "null" -> {"none"}
      [] OTHER -> {"data"}

\* the handler up to the call of the engine: the status code it answers
\* with, and whether it goes on to call pose_model
pose_endpoint(kind, json_outcome) ==
    IF json_outcome = "raises"
    THEN [code |-> 500, called |-> FALSE]          \* except Exception
    ELSE IF json_outcome = "none" \/ kind \in {"empty_object", "no_image"}
    THEN [code |-> 400, called |-> FALSE]          \* No image data provided
    ELSE IF kind \in {"no_comma", "base64_wrong_padding"}
    THEN [code |-> 500, called |-> FALSE]          \* IndexError, binascii.Error
    ELSE IF kind = "not_an_image"
    THEN [code |-> 400, called |-> FALSE]          \* Invalid image data
    ELSE [code |-> 200, called |-> TRUE]

\* a POST to one of the two pose endpoints
PoseEndpoint ==
    /\ op = "idle"
    /\ \E endpoint \in PoseEndpoints, kind \in RequestKinds :
       \E json_outcome \in GetJsonOutcomes(kind) :
       \E pose_landmarks \in IF pose_endpoint(kind, json_outcome).called
                             THEN DetectorOutputs ELSE {NoLandmarks},
          processing_time \in IF pose_endpoint(kind, json_outcome).called
                              THEN ProcessingTimes ELSE {0} :
        /\ op' = "pose_endpoint"
        /\ request' = [endpoint |-> endpoint, kind |-> kind]
        /\ response' = pose_endpoint(kind, json_outcome)
        /\ landmarks' = pose_landmarks
        /\ result' = IF pose_endpoint(kind, json_outcome).called
                     THEN analyze_pose_enhanced(pose_landmarks, processing_time)
                     ELSE NoResult
        /\ UNCHANGED << Catalog, exercise, angles, exercise_scores, detection,
                        feedback, instructions, all_exercises, points, measured,
                        calls, stream, conversation_history, sessions >>

\* the caller drops the result
Return ==
    /\ op # "idle"
    /\ op' = "idle"
    /\ landmarks' = NoLandmarks
    /\ exercise' = "none"
    /\ angles' = EmptyAngles
    /\ exercise_scores' = << >>
    /\ detection' = NoDetection
    /\ feedback' = << >>
    /\ result' = NoResult
    /\ instructions' = NoInstructions
    /\ all_exercises' = << >>
    /\ points' = NoPointsGiven
    /\ measured' = -1
    /\ request' = NoRequest
    /\ response' = NoResponse
    /\ UNCHANGED << Catalog, calls, stream, conversation_history, sessions >>

Next ==
    \/ CalculateAllAngles
    \/ DetectExerciseAdvanced
    \/ ClassifyAngles
    \/ CheckFormGeneric
    \/ CalculateAngle
    \/ AnalyzePoseEnhanced
    \/ GetExerciseInstructions
    \/ GetAllExercises
    \/ PoseEndpoint
    \/ Return

Spec == Init /\ [][Next]_vars

\* the detector outputs of the frames the clients post: nobody, or a person
\* whose two legs are bent alike
RepeatFrames ==
    {NoLandmarks}
    \cup { f \in Snapshots : /\ f.landmark["left_knee"] = f.landmark["right_knee"]
                            /\ f.landmark["left_ankle"] = f.landmark["right_ankle"] }

\* the locals of a call are those of its own invocation of the method
FrameOf_OnInstance(c) == CHOOSE d \in Clients : TRUE

FrameOf(c) == c

\* caller c has taken a step: the calls in progress of the others note it
Stepped(c, new) ==
    [new EXCEPT !.of = [d \in Clients |->
        IF d # c /\ new.of[d].pc \notin {"idle", "done"}
        THEN [new.of[d] EXCEPT !.overlapped = TRUE]
        ELSE new.of[d]]]

EngineIdle ==
    UNCHANGED << Catalog, op, landmarks, exercise, angles, exercise_scores,
                 detection, feedback, result, instructions, all_exercises,
                 points, measured, Periphery >>

\* results = self.pose.process(rgb_frame); without pose_landmarks the call
\* returns the no-pose dict
ProcessFrame(c) ==
    /\ calls.of[c].pc \in {"idle", "done"}
    /\ \E pose_landmarks \in RepeatFrames, processing_time \in ProcessingTimes :
        calls' = Stepped(c,
            [calls EXCEPT !.of[c] =
                IF Truthy(pose_landmarks)
                THEN [NoCall EXCEPT !.pc = "detect",
                                    !.pose_landmarks = pose_landmarks]
                ELSE [NoCall EXCEPT !.pc = "done",
                                    !.result = NoPoseResult(processing_time)]])
    /\ EngineIdle

\* detection_result = self.detect_exercise_advanced(results.pose_landmarks)
DetectStep(c) ==
    /\ calls.of[c].pc = "detect"
    /\ calls' = Stepped(c,
          [calls EXCEPT
              !.locals[FrameOf(c)].detection_result =
                  detect_exercise_advanced(calls.of[c].pose_landmarks),
              !.of[c].pc = "angles"])
    /\ EngineIdle

\* angles = self.calculate_all_angles(results.pose_landmarks)
AnglesStep(c) ==
    /\ calls.of[c].pc = "angles"
    /\ calls' = Stepped(c,
          [calls EXCEPT
              !.locals[FrameOf(c)].angles =
                  calculate_all_angles(calls.of[c].pose_landmarks),
              !.of[c].pc = "form"])
    /\ EngineIdle

\* "Check form": feedback of the detected exercise, or the not-recognized
\* entry
FormStep(c) ==
    /\ calls.of[c].pc = "form"
    /\ calls' = Stepped(c,
          [calls EXCEPT
              !.locals[FrameOf(c)].feedback =
                  LET l == calls.locals[FrameOf(c)]
                  IN  IF l.detection_result.exercise # "unknown"
                      THEN check_form_generic(l.detection_result.exercise, l.angles)
                      ELSE NotRecognizedFeedback,
              !.of[c].pc = "return"])
    /\ EngineIdle

\* "Determine status" and the returned dict, built from the locals; the
\* frame of the call is gone after it
ReturnResult(c) ==
    /\ calls.of[c].pc = "return"
    /\ \E processing_time \in ProcessingTimes :
        calls' = Stepped(c,
          [calls EXCEPT
              !.of[c].result =
                  LET l == calls.locals[FrameOf(c)]
                  IN  [exercise |-> l.detection_result.exercise,
                       status |-> Status(l.feedback),
                       feedback |-> l.feedback,
                       processing_time |-> processing_time,
                       confidence |-> l.detection_result.confidence,
                       angles |-> l.angles,
                       supported_exercises |-> ListKeys(exercise_database)],
              !.of[c].pc = "done",
              !.locals[FrameOf(c)] = NoLocals])
    /\ EngineIdle

\* the API clients post frames to analyze; the calls of analyze_pose_enhanced
\* run in the threads of the server, a line of the method at a time
NextRepeat ==
    \E c \in Clients :
        \/ ProcessFrame(c)
        \/ DetectStep(c)
        \/ AnglesStep(c)
        \/ FormStep(c)
        \/ ReturnResult(c)

SpecRepeat == Init /\ [][NextRepeat]_vars

(***************************************************************************)
(* process_video_stream                                                    *)
(***************************************************************************)
\* what the detector reports for the frames of a stream: nobody, or a person
\* with straight legs
StreamFrames ==
    {NoLandmarks}
    \cup { f \in Snapshots : /\ f.landmark["left_knee"] = <<3, 0>>
                            /\ f.landmark["right_knee"] = <<3, 0>> }

\* the frames a capture delivers before cap.read() fails
Streams ==
    UNION { [1..n -> StreamFrames] : n \in 0..MaxFrames }

\* the frame of process_video_stream
Engine == << op, landmarks, exercise, angles, exercise_scores, detection,
             feedback, result, instructions, all_exercises, points, measured,
             calls >>

\* cap = cv2.VideoCapture(video_source)
OpenCapture ==
    /\ stream.pc = "idle"
    /\ \E f \in Streams :
        stream' = [stream EXCEPT !.pc = "read", !.frames = f, !.capture = "open"]
    /\ UNCHANGED << Catalog, Engine, request, response, conversation_history,
                    sessions >>

\* while cap.isOpened(): ret, frame = cap.read(); if not ret: break
ReadFrame ==
    /\ stream.pc = "read"
    /\ stream' = IF stream.frames = << >>
                 THEN [stream EXCEPT !.pc = "release"]
                 ELSE [stream EXCEPT !.pc = "analyze",
                                     !.frame = Head(stream.frames),
                                     !.frames = Tail(stream.frames)]
    /\ UNCHANGED << Catalog, Engine, request, response, conversation_history,
                    sessions >>

\* result = self.analyze_pose_enhanced(frame); if result["status"] != ...
AnalyzeFrame ==
    /\ stream.pc = "analyze"
    /\ \E processing_time \in ProcessingTimes :
        LET status == analyze_pose_enhanced(stream.frame, processing_time).status
        IN  stream' = [stream EXCEPT
                          !.status = status,
                          !.pc = IF status # "no_pose_detected"
                                 THEN "draw" ELSE "display"]
    /\ UNCHANGED << Catalog, Engine, request, response, conversation_history,
                    sessions >>

\* self.mp_drawing.draw_landmarks(frame, results.pose_landmarks, ...): the
\* name results is bound nowhere, so the call raises NameError and the
\* function is left with the capture open
DrawLandmarks ==
    /\ stream.pc = "draw"
    /\ stream' = [stream EXCEPT !.pc = "error"]
    /\ UNCHANGED << Catalog, Engine, request, response, conversation_history,
                    sessions >>

\* cv2.putText(...); cv2.imshow('Enhanced Pose Analysis', frame)
DisplayFrame ==
    /\ stream.pc = "display"
    /\ stream' = [stream EXCEPT !.pc = "key", !.windows = "open"]
    /\ UNCHANGED << Catalog, Engine, request, response, conversation_history,
                    sessions >>

\* if cv2.waitKey(1) & 0xFF == ord('q'): break
WaitKey ==
    /\ stream.pc = "key"
    /\ \E q \in BOOLEAN :
        stream' = [stream EXCEPT !.pc = IF q THEN "release" ELSE "read"]
    /\ UNCHANGED << Catalog, Engine, request, response, conversation_history,
                    sessions >>

\* cap.release(); cv2.destroyAllWindows()
ReleaseCapture ==
    /\ stream.pc = "release"
    /\ stream' = [stream EXCEPT !.pc = "done", !.capture = "released",
                                !.windows = "destroyed"]
    /\ UNCHANGED << Catalog, Engine, request, response, conversation_history,
                    sessions >>

NextStream ==
    \/ OpenCapture
    \/ ReadFrame
    \/ AnalyzeFrame
    \/ DrawLandmarks
    \/ DisplayFrame
    \/ WaitKey
    \/ ReleaseCapture

SpecStream == Init /\ [][NextStream]_vars

(***************************************************************************)
(* FitnessChatbot.process_message, called by the threads of the server     *)
(***************************************************************************)
\* "Keep only last 10 messages"
HistoryLimit == 10

Min(x, y) == IF x < y THEN x ELSE y

\* s[-k:]
LastOf(s, k) == SubSeq(s, Len(s) - Min(Len(s), k) + 1, Len(s))

\* the calls that have read the history attribute and not yet appended
Loaded == {c \in Clients : sessions.of[c].pc = "append"}

\* self.conversation_history of line 327 is evaluated: the call now holds
\* the list that is the history at this moment; the dict of the message
\* (datetime.now().isoformat()) is built after that, before the append
LoadHistory(c) ==
    /\ sessions.of[c].pc = "idle"
    /\ sessions.calls + Cardinality(Loaded) < MaxCalls
    /\ sessions' = [sessions EXCEPT !.of[c].pc = "append",
                                    !.of[c].current = TRUE]
    /\ UNCHANGED << Catalog, Engine, request, response, stream,
                    conversation_history >>

\* .append({...}) on the list the call holds: messages are numbered as they
\* are appended; a list that another call has replaced meanwhile is no
\* longer the history, and the message is lost with it
AppendMessage(c) ==
    /\ sessions.of[c].pc = "append"
    /\ conversation_history' =
           IF sessions.of[c].current
           THEN Append(conversation_history, sessions.calls + 1)
           ELSE conversation_history
    /\ sessions' = [sessions EXCEPT !.calls = @ + 1, !.of[c].pc = "test"]
    /\ UNCHANGED << Catalog, Engine, request, response, stream >>

\* if len(self.conversation_history) > 10 (line 336); otherwise the call
\* returns
TestLength(c) ==
    /\ sessions.of[c].pc = "test"
    /\ sessions' = [sessions EXCEPT !.of[c].pc =
                        IF Len(conversation_history) > HistoryLimit
                        THEN "slice" ELSE "idle"]
    /\ UNCHANGED << Catalog, Engine, request, response, stream,
                    conversation_history >>

\* the right-hand side of line 337, self.conversation_history[-10:], reads
\* the attribute again and builds a new list
SliceHistory(c) ==
    /\ sessions.of[c].pc = "slice"
    /\ sessions' = [sessions EXCEPT
                        !.of[c].pc = "store",
                        !.of[c].kept = LastOf(conversation_history, HistoryLimit)]
    /\ UNCHANGED << Catalog, Engine, request, response, stream,
                    conversation_history >>

\* self.conversation_history = <the new list>, and the call returns; the
\* list held by a call that has not yet appended is the history no more
StoreHistory(c) ==
    /\ sessions.of[c].pc = "store"
    /\ conversation_history' = sessions.of[c].kept
    /\ sessions' = [sessions EXCEPT
                        !.of = [d \in Clients |->
                                   IF d = c
                                   THEN [pc |-> "idle", kept |-> << >>,
                                         current |-> TRUE]
                                   ELSE [sessions.of[d] EXCEPT
                                            !.current = (sessions.of[d].pc # "append")]]]
    /\ UNCHANGED << Catalog, Engine, request, response, stream >>

\* get_conversation_summary(): the fields that depend on the history length
NoSummary == [message |-> "No conversation history available"]

get_conversation_summary ==
    IF conversation_history = << >>
    THEN NoSummary
    ELSE [total_messages |-> Len(conversation_history)]

NextChat ==
    \E c \in Clients :
        \/ LoadHistory(c)
        \/ AppendMessage(c)
        \/ TestLength(c)
        \/ SliceHistory(c)
        \/ StoreHistory(c)

SpecChat == Init /\ [][NextChat]_vars

(***************************************************************************)
(* Properties                                                              *)
(***************************************************************************)
Classified == op \in {"classify", "detect_exercise_advanced"}

FormChecked == op = "check_form_generic" /\ exercise \in Keys(exercise_database)

\* the number of entries of a list that satisfy Test
Count(s, Test(_)) == Cardinality({ i \in DOMAIN s : Test(s[i]) })

\* the canonical AngleSet of the squat examples
SquatAngles ==
    ("knee_angle" :> Deg(90)) @@ ("hip_angle" :> Deg(70)) @@ ("back_angle" :> Deg(170))

\* every present key angle lies in [min, max] and within 10 degrees of optimal
NearOptimal(exercise_config, a) ==
    \A i \in DOMAIN exercise_config.key_angles :
        LET n == exercise_config.key_angles[i]
            t == exercise_config.thresholds[n]
        IN  n \in DOMAIN a =>
                /\ a[n] >= Deg(t.min)
                /\ a[n] <= Deg(t.max)
                /\ Abs(a[n] - Deg(t.optimal)) <= Deg(10)

\* C1: the form check of a catalog exercise whose present key angles are all
\* within [min, max] and within 10 degrees of optimal returns an empty
\* feedback list; in particular squat with knee 90, hip 70, back 170 does.
C1_NearOptimalNoFeedback ==
    (FormChecked /\ NearOptimal(Entry(exercise_database, exercise), angles))
        => feedback = << >>

\* C2: the classifier, given the AngleSet knee 90, hip 70, back 170 without
\* elbow and shoulder angles, returns squat with a confidence of at least 0.6.
C2_SquatAnglesClassifyAsSquat ==
    (op = "classify" /\ angles = SquatAngles)
        => (detection.exercise = "squat" /\ detection.confidence >= ConfidenceFloor)

C2_Witness ==
    /\ op = "classify"
    /\ angles = SquatAngles
    /\ detection = [exercise |-> "squat", confidence |-> 100]

\* the largest score of exercise_scores (0 when nothing was scored)
MaxScore(scores) ==
    IF scores = << >> THEN 0
    ELSE CHOOSE m \in { scores[i].confidence : i \in DOMAIN scores } :
             \A i \in DOMAIN scores : scores[i].confidence <= m

\* the exercises that hold the largest score
Tied(scores) ==
    { scores[i].exercise : i \in DOMAIN scores } \cap
    { e \in Keys(exercise_patterns) :
        \E i \in DOMAIN scores :
            scores[i].exercise = e /\ scores[i].confidence = MaxScore(scores) }

\* the place of an exercise in exercise_patterns
PatternRank(e) ==
    CHOOSE i \in DOMAIN exercise_patterns : exercise_patterns[i].exercise = e

TieAboveFloor ==
    /\ Classified
    /\ Cardinality(Tied(exercise_scores)) >= 2
    /\ MaxScore(exercise_scores) > ConfidenceFloor

\* C3 (as stated): when two or more exercises tie for the maximum score above
\* the floor, the classifier returns the tied exercise whose key is
\* lexicographically smallest.
C3_TieGoesToLexicographicallySmallest ==
    TieAboveFloor =>
        /\ detection.exercise \in Tied(exercise_scores)
        /\ \A e \in Tied(exercise_scores) : LexRank(detection.exercise) <= LexRank(e)

\* C3 (amended): when two or more exercises tie for the maximum score above
\* the floor, the classifier returns the tied exercise that exercise_patterns
\* declares first.
C3_TieGoesToFirstDeclared ==
    TieAboveFloor =>
        /\ detection.exercise \in Tied(exercise_scores)
        /\ \A e \in Tied(exercise_scores) : PatternRank(detection.exercise) <= PatternRank(e)

C3_Witness ==
    /\ TieAboveFloor
    /\ Tied(exercise_scores) = {"squat", "lunge", "plank"}
    /\ detection.exercise = "squat"

\* the indicator tests of an exercise's pattern whose angle is in the AngleSet
Evaluable(e, a) ==
    { i \in ChecksOf(Entry(exercise_patterns, e)) : IndicatorChecks[i].angle \in DOMAIN a }

\* C4: a primary indicator whose angle is absent from the AngleSet is counted
\* in neither the passed count nor the evaluated count: the evaluated count of
\* every scored exercise is the number of its evaluable indicators, and its
\* score is passed / evaluated over those alone.
C4_AbsentAngleNotCounted ==
    Classified =>
        \A i \in DOMAIN exercise_scores :
            LET r == exercise_scores[i]
                evaluated == Cardinality(Evaluable(r.exercise, angles))
            IN  /\ r.total_checks = evaluated
                /\ evaluated > 0 => r.confidence = (r.score * 100) \div evaluated

\* C5: the classifier returns a confidence in [0, 1]; it returns
\* ("unknown", 0.0) exactly when the maximum exercise score is at or below
\* 0.6, and otherwise a catalog exercise whose score is that maximum, with
\* that score as the confidence.
C5_UnknownIffMaxAtOrBelowFloor ==
    Classified =>
        /\ detection.confidence >= 0
        /\ detection.confidence <= 100
        /\ (detection = Unknown) <=> (MaxScore(exercise_scores) <= ConfidenceFloor)
        /\ detection # Unknown =>
              /\ detection.exercise \in Keys(exercise_database)
              /\ detection.exercise \in Tied(exercise_scores)
              /\ detection.confidence = MaxScore(exercise_scores)

C5_Witness ==
    /\ Classified
    /\ MaxScore(exercise_scores) = 100
    /\ detection.exercise = "pushup"
    /\ detection.confidence = 100

\* a score at the boundary side: the best exercise passes half of its checks
C5_WitnessUnknown ==
    /\ Classified
    /\ MaxScore(exercise_scores) = 50
    /\ detection = Unknown

\* C6: classifying an empty AngleSet, or a missing (None) landmark set,
\* yields ("unknown", 0.0).
C6_EmptyOrMissingIsUnknown ==
    ((Classified /\ angles = EmptyAngles)
       \/ (op = "detect_exercise_advanced" /\ landmarks = NoLandmarks))
        => detection = Unknown

C6_Witness ==
    /\ op = "detect_exercise_advanced"
    /\ landmarks = EmptyLandmarks
    /\ angles = EmptyAngles
    /\ exercise_scores # << >>
    /\ detection = Unknown

C6_WitnessNone ==
    /\ op = "detect_exercise_advanced"
    /\ landmarks = NoLandmarks
    /\ detection = Unknown

Aggregated == op = "calculate_all_angles"

\* C7: for each joint type the canonical angle is the mean of the left and
\* right values when both exist, the value of the single side when only one
\* exists, and absent when neither exists.
C7_CanonicalFromSides ==
    Aggregated =>
        \A j \in JointTypes :
            LET l == "left_" \o j \o "_angle"
                r == "right_" \o j \o "_angle"
                c == j \o "_angle"
            IN  /\ (l \in DOMAIN angles /\ r \in DOMAIN angles) =>
                      (c \in DOMAIN angles /\ angles[c] + angles[c] = angles[l] + angles[r])
                /\ (l \in DOMAIN angles /\ r \notin DOMAIN angles) =>
                      (c \in DOMAIN angles /\ angles[c] = angles[l])
                /\ (l \notin DOMAIN angles /\ r \in DOMAIN angles) =>
                      (c \in DOMAIN angles /\ angles[c] = angles[r])
                /\ (l \notin DOMAIN angles /\ r \notin DOMAIN angles) =>
                      c \notin DOMAIN angles

\* the two knees bent differently: the canonical knee angle is their mean
C7_Witness ==
    /\ Aggregated
    /\ "left_knee_angle" \in DOMAIN angles
    /\ "right_knee_angle" \in DOMAIN angles
    /\ angles["left_knee_angle"] # angles["right_knee_angle"]
    /\ angles["knee_angle"] + angles["knee_angle"]
           = angles["left_knee_angle"] + angles["right_knee_angle"]

KeyKinds == {"too_small", "too_large", "adjust"}

\* the feedback holds the item of this kind about this subject
Has(k, n) == \E j \in DOMAIN feedback : feedback[j] = Item(k, n)

\* C8: for every key angle of the exercise's profile that is present, the
\* form check emits exactly one outcome: "too small" if value < min, else
\* "too large" if value > max, else "Adjust ... for optimal form" if
\* |value - optimal| > 10, else nothing; a value exactly at min, at max or
\* exactly 10 from optimal is not flagged by the rule that names that bound.
C8_OneOutcomePerKeyAngle ==
    FormChecked =>
        LET exercise_config == Entry(exercise_database, exercise)
        IN  \A i \in DOMAIN exercise_config.key_angles :
                LET n == exercise_config.key_angles[i]
                    t == exercise_config.thresholds[n]
                    About(item) == item.kind \in KeyKinds /\ item.subject = n
                IN  n \in DOMAIN angles =>
                        /\ Count(feedback, About) <= 1
                        /\ Has("too_small", n) <=> angles[n] < Deg(t.min)
                        /\ Has("too_large", n) <=>
                              (angles[n] >= Deg(t.min) /\ angles[n] > Deg(t.max))
                        /\ Has("adjust", n) <=>
                              /\ angles[n] >= Deg(t.min)
                              /\ angles[n] <= Deg(t.max)
                              /\ Abs(angles[n] - Deg(t.optimal)) > Deg(10)

\* squat with knee_angle 50 yields a "too small" item
C8_Witness ==
    /\ FormChecked
    /\ exercise = "squat"
    /\ "knee_angle" \in DOMAIN angles
    /\ angles["knee_angle"] = Deg(50)
    /\ Has("too_small", "knee_angle")

\* knee at min, hip at max, back exactly 10 from optimal
C8_WitnessAtBounds ==
    /\ FormChecked
    /\ exercise = "squat"
    /\ angles = ("knee_angle" :> Deg(70)) @@ ("hip_angle" :> Deg(90))
                @@ ("back_angle" :> Deg(160))
    /\ Has("adjust", "knee_angle")
    /\ Has("adjust", "hip_angle")
    /\ ~Has("too_small", "knee_angle")
    /\ ~Has("too_large", "hip_angle")
    /\ ~Has("adjust", "back_angle")

\* the number of times the profile of the checked exercise declares a check
Declared(c) ==
    LET Is(x) == x = c
    IN  Count(Entry(exercise_database, exercise).alignment_checks, Is)

\* the number of feedback items with this alignment text
Emitted(text) ==
    LET Is(item) == item = Item("alignment", text)
    IN  Count(feedback, Is)

\* C9: in the alignment pass, back_straight emits its feedback iff back_angle
\* is present and below 160, body_straight iff shoulder_angle is present and
\* below 160, and knee_alignment and elbow_fixed emit their reminder on every
\* call, whatever the AngleSet.
C9_AlignmentRules ==
    FormChecked =>
        /\ Emitted("Keep your back straight") =
              IF "back_angle" \in DOMAIN angles /\ angles["back_angle"] < Deg(160)
              THEN Declared("back_straight") ELSE 0
        /\ Emitted("Keep your body in a straight line") =
              IF "shoulder_angle" \in DOMAIN angles /\ angles["shoulder_angle"] < Deg(160)
              THEN Declared("body_straight") ELSE 0
        /\ Emitted("Ensure knees are aligned with your feet") = Declared("knee_alignment")
        /\ Emitted("Keep your elbows in a fixed position") = Declared("elbow_fixed")

C9_Witness ==
    /\ FormChecked
    /\ exercise = "squat"
    /\ angles = ("back_angle" :> Deg(140))
    /\ feedback = << Item("too_small", "back_angle"),
                     Item("alignment", "Ensure knees are aligned with your feet"),
                     Item("alignment", "Keep your back straight") >>

C9_WitnessBodyStraight ==
    /\ FormChecked
    /\ exercise = "plank"
    /\ "shoulder_angle" \in DOMAIN angles
    /\ Emitted("Keep your body in a straight line") = 1

C9_WitnessElbowFixed ==
    /\ FormChecked
    /\ exercise = "bicep_curl"
    /\ angles = EmptyAngles
    /\ Emitted("Keep your elbows in a fixed position") = 1

\* the alignment check that emits a feedback text
CheckOf(text) ==
    CASE text = "Keep your back straight" -> "back_straight"
      [] text = "Keep your body in a straight line" -> "body_straight"
      [] text = "Ensure knees are aligned with your feet" -> "knee_alignment"
      [] text = "Keep your elbows in a fixed position" -> "elbow_fixed"

\* the place of x in a list
IndexOf(s, x) == CHOOSE i \in DOMAIN s : s[i] = x

\* C10: the feedback list is ordered: the key-angle items in the profile's
\* key_angles order, then the alignment items in its alignment_checks order;
\* no alignment item precedes a key-angle item.
C10_FeedbackOrder ==
    FormChecked =>
        LET exercise_config == Entry(exercise_database, exercise)
            KeyPlace(item) == IndexOf(exercise_config.key_angles, item.subject)
            CheckPlace(item) ==
                IndexOf(exercise_config.alignment_checks, CheckOf(item.subject))
        IN  \A i, j \in DOMAIN feedback :
                i < j =>
                    /\ feedback[i].kind \in KeyKinds \cup {"alignment"}
                    /\ feedback[i].kind = "alignment" => feedback[j].kind = "alignment"
                    /\ (feedback[i].kind \in KeyKinds /\ feedback[j].kind \in KeyKinds)
                          => KeyPlace(feedback[i]) < KeyPlace(feedback[j])
                    /\ (feedback[i].kind = "alignment" /\ feedback[j].kind = "alignment")
                          => CheckPlace(feedback[i]) < CheckPlace(feedback[j])

\* three key-angle items followed by two alignment items
C10_Witness ==
    /\ FormChecked
    /\ exercise = "squat"
    /\ feedback = << Item("too_small", "knee_angle"),
                     Item("too_large", "hip_angle"),
                     Item("too_small", "back_angle"),
                     Item("alignment", "Ensure knees are aligned with your feet"),
                     Item("alignment", "Keep your back straight") >>

Analyzed == op = "analyze_pose_enhanced"

\* C11: in every result of analyze_pose_enhanced the status is "correct" if
\* and only if the feedback list is empty and the exercise is a catalog key;
\* a catalog exercise with feedback has the status "incorrect".
C11_CorrectIffNoFeedbackAndRecognized ==
    Analyzed =>
        /\ result.status = "correct"
              <=> (/\ result.feedback = << >>
                   /\ result.exercise \in Keys(exercise_database))
        /\ (result.exercise \in Keys(exercise_database) /\ result.feedback # << >>)
              => result.status = "incorrect"

\* a pushup held with every key angle near its optimum: no feedback at all
C11_Witness ==
    /\ Analyzed
    /\ result.exercise = "pushup"
    /\ result.feedback = << >>
    /\ result.status = "correct"

\* C12: form-checking an exercise key that is not in the catalog yields the
\* single entry "Exercise not in database", and the status rule gives that
\* feedback the status "unrecognized".
C12_UnknownKeyIsUnrecognized ==
    (op = "check_form_generic" /\ exercise \notin Keys(exercise_database)) =>
        /\ feedback = << Item("not_in_database", "Exercise not in database") >>
        /\ Status(feedback) = "unrecognized"

\* C13: when landmarks are detected and the classifier answers "unknown", the
\* result has the status "unrecognized", confidence 0, the aggregated
\* AngleSet and the single feedback item asking to reposition.
C13_UnknownIsUnrecognized ==
    (Analyzed /\ Truthy(landmarks) /\ result.exercise = "unknown") =>
        /\ result.status = "unrecognized"
        /\ result.confidence = 0
        /\ result.angles = calculate_all_angles(landmarks)
        /\ result.feedback = NotRecognizedFeedback

\* C14: when the detector reports no landmarks the result is status
\* "no_pose_detected", exercise "unknown", confidence 0, an empty AngleSet,
\* the visibility feedback and the list of supported exercises; and that
\* status is returned in no other case.
C14_NoLandmarksIsNoPose ==
    Analyzed =>
        /\ ~Truthy(landmarks) =>
              /\ result.status = "no_pose_detected"
              /\ result.exercise = "unknown"
              /\ result.confidence = 0
              /\ result.angles = EmptyAngles
              /\ result.feedback = NoPoseFeedback
              /\ result.supported_exercises = ListKeys(InitialExerciseDatabase)
        /\ result.status = "no_pose_detected" => ~Truthy(landmarks)

\* a frame in which the detector found nobody
C14_Witness ==
    /\ Analyzed
    /\ landmarks = NoLandmarks
    /\ result.status = "no_pose_detected"
    /\ Len(result.supported_exercises) = Len(InitialExerciseDatabase)

Measured == op = "calculate_angle"

\* an arm of zero length: a or c coincides with the vertex b
Degenerate(t) == t.a = t.b \/ t.c = t.b

\* C15: calculate_angle(a, b, c) with a = b or c = b returns no angle value,
\* and a knee angle whose hip or ankle coincides with the knee is absent from
\* the AngleSet.
C15_DegenerateIsAbsent ==
    /\ (Measured /\ Degenerate(points)) => measured \notin 0..Deg(180)
    /\ (op = "calculate_all_angles" /\ landmarks \in Poses) =>
          \A side \in {"left", "right"} :
              Degenerate([a |-> landmarks.landmark[side \o "_hip"],
                          b |-> landmarks.landmark[side \o "_knee"],
                          c |-> landmarks.landmark[side \o "_ankle"]])
                  => (side \o "_knee_angle") \notin DOMAIN angles

\* the values of an AngleSet
InRange(a) == \A n \in DOMAIN a : a[n] \in 0..Deg(180)

\* C16: every value calculate_angle returns for non-degenerate points, and
\* every per-side and canonical value of an AngleSet, lies in [0, 180]; the
\* value is the absolute difference of the two arm directions, replaced by
\* 360 minus it when it exceeds 180.
C16_AnglesWithinRange ==
    /\ (Measured /\ ~Degenerate(points)) =>
          LET difference ==
                  Abs(ArcTan2Deg(points.c[2] - points.b[2], points.c[1] - points.b[1])
                      - ArcTan2Deg(points.a[2] - points.b[2], points.a[1] - points.b[1]))
          IN  /\ measured \in 0..Deg(180)
              /\ measured = IF difference > 180
                            THEN Deg(360 - difference) ELSE Deg(difference)
    /\ op \in {"calculate_all_angles", "detect_exercise_advanced"}
          => InRange(angles)
    /\ Analyzed => InRange(result.angles)

\* the arms point to 135 and -135 degrees: a difference of 270, folded to 90
C16_Witness ==
    /\ Measured
    /\ points = [a |-> <<0, 2>>, b |-> <<1, 1>>, c |-> <<0, 0>>]
    /\ measured = Deg(90)

Dot(t) ==
    (t.a[1] - t.b[1]) * (t.c[1] - t.b[1]) + (t.a[2] - t.b[2]) * (t.c[2] - t.b[2])

Cross(t) ==
    (t.a[1] - t.b[1]) * (t.c[2] - t.b[2]) - (t.a[2] - t.b[2]) * (t.c[1] - t.b[1])

\* C17: calculate_angle returns 85 to 95 degrees when the arms b-a and b-c
\* are perpendicular, 175 to 185 when a, b, c are distinct and collinear with
\* b between a and c, and 40 to 50 for a = (0, 0), b = (1, 0), c = (0.5, 0.5)
\* (here in half units: (0, 0), (2, 0), (1, 1)).
C17_ReferenceAngles ==
    (Measured /\ ~Degenerate(points)) =>
        /\ Dot(points) = 0 => measured \in Deg(85)..Deg(95)
        /\ (Cross(points) = 0 /\ Dot(points) < 0) => measured \in Deg(175)..Deg(185)
        /\ points = [a |-> <<0, 0>>, b |-> <<2, 0>>, c |-> <<1, 1>>]
              => measured \in Deg(40)..Deg(50)

\* the right angle a = (0, 0), b = (1, 0), c = (1, 1)
C17_Witness ==
    /\ Measured
    /\ points = [a |-> <<0, 0>>, b |-> <<1, 0>>, c |-> <<1, 1>>]
    /\ measured = Deg(90)

\* the straight line a = (0, 0), b = (1, 0), c = (2, 0)
C17_WitnessCollinear ==
    /\ Measured
    /\ points = [a |-> <<0, 0>>, b |-> <<1, 0>>, c |-> <<2, 0>>]
    /\ measured = Deg(180)

\* the 45-degree case
C17_WitnessHalfRight ==
    /\ Measured
    /\ points = [a |-> <<0, 0>>, b |-> <<2, 0>>, c |-> <<1, 1>>]
    /\ measured = Deg(45)

\* two results equal in every field except processing_time
SameButTime(r, q) ==
    [r EXCEPT !.processing_time = 0] = [q EXCEPT !.processing_time = 0]

\* caller c holds the result of a finished call
Done(c) == calls.of[c].pc = "done"

\* C18: two calls of analyze_pose_enhanced on the same detected landmarks
\* return results equal in every field except processing_time (exercise,
\* confidence, status, feedback, angles, supported_exercises), whatever calls
\* ran in between or at the same time.
C18_SameLandmarksSameResult ==
    \A c \in Clients, d \in Clients :
        (/\ Done(c) /\ Done(d)
         /\ calls.of[c].pose_landmarks = calls.of[d].pose_landmarks)
            => SameButTime(calls.of[c].result, calls.of[d].result)

\* two clients hold a result for the same squat pose, the two calls took
\* different times, and one of them ran while the other client's call on
\* another frame was in progress
C18_Witness ==
    \E c \in Clients, d \in Clients :
        /\ c # d
        /\ Done(c) /\ Done(d)
        /\ calls.of[c].pose_landmarks \in Snapshots
        /\ calls.of[c].pose_landmarks = calls.of[d].pose_landmarks
        /\ calls.of[c].overlapped
        /\ calls.of[c].result.exercise = "squat"
        /\ calls.of[c].result.processing_time # calls.of[d].result.processing_time

\* C19: for every catalog exercise the key_angles, thresholds and
\* alignment_checks that get_exercise_instructions returns are those
\* check_form_generic evaluates: checking any AngleSet against the returned
\* tables gives the feedback check_form_generic gives.
C19_InstructionsMatchFormChecker ==
    (op = "get_exercise_instructions" /\ exercise \in Keys(exercise_database)) =>
        LET exercise_config == Entry(exercise_database, exercise)
        IN  /\ instructions.key_angles = exercise_config.key_angles
            /\ instructions.thresholds = exercise_config.thresholds
            /\ instructions.alignment_checks = exercise_config.alignment_checks
            /\ \A a \in AngleSets :
                  KeyAngleFeedback(instructions, a, 1)
                      \o AlignmentFeedback(instructions, a, 1)
                  = check_form_generic(exercise, a)

\* the instructions of the pushup
C19_Witness ==
    /\ op = "get_exercise_instructions"
    /\ exercise = "pushup"
    /\ instructions.key_angles = << "elbow_angle", "shoulder_angle", "back_angle" >>
    /\ instructions.alignment_checks = << "body_straight", "elbow_position" >>

\* C20: no engine operation changes exercise_database or exercise_patterns,
\* under any sequence of calls.
C20_CatalogNeverChanges ==
    [][/\ exercise_database' = exercise_database
       /\ exercise_patterns' = exercise_patterns]_vars

\* a query has been answered and the catalog is the one __init__ built
C20_Witness ==
    /\ op = "get_exercise_instructions"
    /\ exercise = "squat"
    /\ instructions.exercise = "squat"
    /\ exercise_database = InitialExerciseDatabase
    /\ exercise_patterns = InitialExercisePatterns

\* C21: the engine starts only with a catalog whose profiles and patterns
\* pair up and whose alignment-check identifiers all have a rule in the form
\* checker, so no form check meets an identifier that is silently skipped.
C21_NoAlignmentCheckSkipped ==
    /\ Keys(exercise_database) = Keys(exercise_patterns)
    /\ FormChecked =>
          Range(Entry(exercise_database, exercise).alignment_checks) \subseteq AlignmentRules

SquatLike(a) ==
    /\ "knee_angle" \in DOMAIN a /\ a["knee_angle"] < Deg(120)
    /\ "hip_angle" \in DOMAIN a /\ a["hip_angle"] < Deg(90)

PushupLike(a) ==
    /\ "elbow_angle" \in DOMAIN a /\ a["elbow_angle"] < Deg(120)
    /\ "shoulder_angle" \in DOMAIN a /\ a["shoulder_angle"] > Deg(160)

\* C23: an AngleSet that is neither squat-like (knee_angle < 120 and
\* hip_angle < 90) nor pushup-like (elbow_angle < 120 and shoulder_angle >
\* 160) is classified as "unknown" with confidence 0.
C23_NeitherSquatNorPushupIsUnknown ==
    (Classified /\ ~SquatLike(angles) /\ ~PushupLike(angles)) => detection = Unknown

\* C24: form-checking any catalog exercise against an empty AngleSet returns
\* an empty feedback list.
C24_EmptyAngleSetNoFeedback ==
    (FormChecked /\ angles = EmptyAngles) => feedback = << >>

\* the score of an exercise in exercise_scores (-1 when it has none)
ScoreOf(e) ==
    IF \E i \in DOMAIN exercise_scores : exercise_scores[i].exercise = e
    THEN exercise_scores[CHOOSE i \in DOMAIN exercise_scores :
                            exercise_scores[i].exercise = e].confidence
    ELSE -1

\* the returned exercise is a tied one and none of the tied is declared
\* before it
FirstDeclaredOfTied ==
    /\ detection.exercise \in Tied(exercise_scores)
    /\ \A e \in Tied(exercise_scores) :
          e # detection.exercise => PatternRank(detection.exercise) < PatternRank(e)

\* lunge is returned only with knee_angle < 120 and squat and pushup below
\* 1.0, plank only with squat, pushup and lunge below 1.0
LaterOnlyWhenEarlierFall ==
    /\ detection.exercise = "lunge" =>
          /\ "knee_angle" \in DOMAIN angles /\ angles["knee_angle"] < Deg(120)
          /\ ScoreOf("squat") < 100 /\ ScoreOf("pushup") < 100
    /\ detection.exercise = "plank" =>
          /\ ScoreOf("squat") < 100 /\ ScoreOf("pushup") < 100
          /\ ScoreOf("lunge") < 100

\* C25 (as stated): when several exercises tie for the maximum score the
\* classifier returns the tied exercise declared first in exercise_patterns
\* (squat before pushup before lunge before plank); lunge is returned only
\* when knee_angle < 120 and neither squat nor pushup scores 1.0, and plank
\* only when none of squat, pushup and lunge scores 1.0.
C25_FirstDeclaredWinsTie ==
    Classified =>
        /\ Cardinality(Tied(exercise_scores)) >= 2 => FirstDeclaredOfTied
        /\ LaterOnlyWhenEarlierFall

\* C25 (amended): when several exercises tie for the maximum score and that
\* score is above the 0.6 floor, the classifier returns the tied exercise
\* declared first in exercise_patterns; lunge is returned only when
\* knee_angle < 120 and neither squat nor pushup scores 1.0, and plank only
\* when none of squat, pushup and lunge scores 1.0.
C25_FirstDeclaredWinsTieAboveFloor ==
    Classified =>
        /\ (/\ Cardinality(Tied(exercise_scores)) >= 2
            /\ MaxScore(exercise_scores) > ConfidenceFloor) => FirstDeclaredOfTied
        /\ LaterOnlyWhenEarlierFall

\* lunge and plank tie at 1.0 while squat scores 0.5: lunge is returned
C25_Witness ==
    /\ Classified
    /\ Tied(exercise_scores) = {"lunge", "plank"}
    /\ ScoreOf("squat") = 50
    /\ detection.exercise = "lunge"

Scored == {"squat", "pushup", "lunge", "plank"}

\* C26: the classifier returns only squat, pushup, lunge, plank or unknown;
\* the other six catalog exercises have no primary indicator that is tested,
\* receive no score and are never the result.
C26_OnlyFourExercisesClassified ==
    Classified =>
        /\ detection.exercise \in Scored \cup {"unknown"}
        /\ \A i \in DOMAIN exercise_scores : exercise_scores[i].exercise \in Scored
        /\ \A e \in Keys(exercise_patterns) \ Scored :
              ChecksOf(Entry(exercise_patterns, e)) = {}

\* all four scored, the last of them returned
C26_Witness ==
    /\ Classified
    /\ { exercise_scores[i].exercise : i \in DOMAIN exercise_scores } = Scored
    /\ detection.exercise = "plank"

\* C27: every returned confidence is exactly 0.0 or 1.0: an exercise has at
\* most two tested indicators, its score is 0, 0.5 or 1, and only a score
\* above 0.6 is returned, so a recognized exercise has confidence 1.0.
C27_ConfidenceIsZeroOrOne ==
    Classified =>
        /\ detection.confidence \in {0, 100}
        /\ detection.exercise # "unknown" => detection.confidence = 100
        /\ \A i \in DOMAIN exercise_scores :
              /\ exercise_scores[i].total_checks <= 2
              /\ exercise_scores[i].confidence \in {0, 50, 100}

\* the best score is 0.5: nothing is recognized
C27_Witness ==
    /\ Classified
    /\ MaxScore(exercise_scores) = 50
    /\ detection = Unknown

\* C28: the AngleSet of calculate_all_angles is empty when the landmark set
\* is missing and otherwise holds all ten per-side and all five canonical
\* angles; no per-side angle is there without its canonical angle, and
\* calculate_angle is never given a missing point.
C28_AllOrNothing ==
    op = "calculate_all_angles" =>
        LET landmarks_dict ==
                [n \in LandmarkNames |-> get_landmark_coordinates(landmarks, n)]
        IN  /\ landmarks \in {NoLandmarks, EmptyLandmarks} => angles = EmptyAngles
            /\ landmarks \notin {NoLandmarks, EmptyLandmarks}
                  => DOMAIN angles = SideNames \cup CanonicalNames
            /\ \A j \in JointTypes, side \in {"left", "right"} :
                  (side \o "_" \o j \o "_angle") \in DOMAIN angles
                      => (j \o "_angle") \in DOMAIN angles
            /\ \A side \in {"left", "right"} :
                  /\ AllPresent(landmarks_dict, { side \o "_shoulder", side \o "_hip",
                                                  side \o "_knee" })
                        => landmarks_dict[side \o "_ankle"] # << >>
                  /\ AllPresent(landmarks_dict, { side \o "_shoulder", side \o "_elbow",
                                                  side \o "_wrist" })
                        => landmarks_dict[side \o "_hip"] # << >>

\* a pose with every landmark: fifteen angles
C28_Witness ==
    /\ op = "calculate_all_angles"
    /\ landmarks \in Poses
    /\ Cardinality(DOMAIN angles) = 15

\* a pose endpoint has answered a request whose image is missing or malformed
Malformed == op = "pose_endpoint" /\ request.kind # "image"

\* C22: the pose endpoints answer every request whose image is missing or
\* malformed (no JSON body, no 'image' field, no comma in the image string,
\* invalid base64, bytes that are no image) with a 4xx status, without
\* calling the engine.
C22_MalformedImageIsClientError ==
    Malformed =>
        /\ response.code \in 400..499
        /\ ~response.called

\* C29: process_video_stream handles the frames in order and, when the
\* stream ends or 'q' is pressed, releases the capture and closes the
\* windows; no frame ends the loop through an error with the capture still
\* open.
C29_NoFrameEndsStreamByError ==
    /\ stream.pc = "error" => stream.capture = "released"
    /\ stream.pc = "done" => (stream.capture = "released" /\ stream.windows = "destroyed")

\* no process_message call is in progress
Quiet == \A c \in Clients : sessions.of[c].pc = "idle"

\* the last min(n, 10) of the messages 1..n, in arrival order
LastArrived(n) ==
    [i \in 1..Min(n, HistoryLimit) |-> n - Min(n, HistoryLimit) + i]

\* C30: after n process_message calls, also when calls of different clients
\* interleave, conversation_history holds the last min(n, 10) messages in
\* arrival order and get_conversation_summary reports total_messages =
\* min(n, 10).
C30_HistoryIsLastTen ==
    (Quiet /\ sessions.calls >= 1) =>
        /\ conversation_history = LastArrived(sessions.calls)
        /\ get_conversation_summary.total_messages = Min(sessions.calls, HistoryLimit)
====
